---- MODULE Spec2Model ----
(***************************************************************************)
(* A model of vardbg's FrameRenderer (vardbg/output/video_writer/          *)
(* renderer.py): the frame lifecycle (new_frame, start_frame,              *)
(* finish_frame, write_intro, close), the layout computation (calc_sizes), *)
(* the code windowing of draw_code, the tail slice of draw_output and the  *)
(* reference connector of draw_other_vars / draw_last_var / draw_var_ref.  *)
(*                                                                         *)
(* Conventions.                                                            *)
(*  - Python's None is the empty tuple; a present value v is <<v>>.        *)
(*  - A text is measured as PIL measures a monospace font: its number of   *)
(*    characters times the glyph width of the font.                        *)
(*  - body_rows is a Python float; it is kept as an exact fraction         *)
(*    [num, den].  Y coordinates of the anchors and the trunk X of the     *)
(*    connector hold halves (x - nh / 2, w - sect_padding / 2): they are   *)
(*    kept in half pixels, i.e. multiplied by two.                         *)
(*  - A raw code line is the list of chunks textwrap splits it into: a     *)
(*    chunk is a word or a run of whitespace, [ws, len].                   *)
(*  - A Canvas is abstracted to how often the encoder was handed it and    *)
(*    whether it was drawn on after that; what an operation drew is kept   *)
(*    in the history variable `last`.                                      *)
(*  - An exception that escapes an operation ends the run (the renderer's  *)
(*    callers do not catch); so does close (encoder.stop ends the          *)
(*    encoder's lifecycle).                                                *)
(***************************************************************************)
EXTENDS Integers, Sequences, FiniteSets, TLC

VARIABLES
    cfg,              \* self.cfg, fixed at construction
    sizes_populated,  \* self.sizes_populated
    sizes,            \* the layout fields line_height .. ovars_rows (None before calc_sizes)
    last_var_x,       \* self.last_var_x   (None or <<pixels>>)
    last_var_y,       \* self.last_var_y   (None or <<half pixels>>)
    ref_var_x,        \* self.ref_var_x    (None or <<pixels>>)
    ref_var_y,        \* self.ref_var_y    (None or <<half pixels>>)
    anchor_tick,      \* history: the finish_frame call that set [last |-> ..., ref |-> ...]
    frame,            \* self.frame / self.draw: None or <<canvas id>>
    canvases,         \* every Canvas allocated so far, by id
    encoder,          \* what the encoder collaborator has received, in order
    err,              \* the exception that escaped, or "none"
    closed,           \* close has returned or raised
    calc_calls,       \* history: number of calc_sizes invocations
    start_calls,      \* history: number of start_frame calls
    finish_calls,     \* history: number of finish_frame executions (also inside close)
    last              \* history: the last operation, its arguments and what it did

vars == <<cfg, sizes_populated, sizes, last_var_x, last_var_y, ref_var_x, ref_var_y,
          anchor_tick, frame, canvases, encoder, err, closed, calc_calls, start_calls,
          finish_calls, last>>

\* The fields of the renderer object itself (no history variables).
renderer == <<cfg, sizes_populated, sizes, last_var_x, last_var_y, ref_var_x, ref_var_y,
              frame, canvases, encoder, err>>

-----------------------------------------------------------------------------
(* Bounds *)

MaxFrames == 2      \* start_frame calls in a run
MaxWrites == 2      \* frames handed to the encoder in a run
MaxOutLines == 3    \* lines in the output history

-----------------------------------------------------------------------------
(* Python values and arithmetic *)

None == <<>>
Some(v) == <<v>>
Val(o) == o[1]

Max(a, b) == IF a >= b THEN a ELSE b
Min(a, b) == IF a <= b THEN a ELSE b

\* a // b for b > 0 (floors)
FloorDiv(a, b) == a \div b

\* int(a / b) for b > 0 (truncates towards zero)
TruncDiv(a, b) == IF a >= 0 THEN a \div b ELSE -((-a) \div b)

\* round(n / d) for d > 0: to the nearest integer, a tie to the even one
PyRound(n, d) ==
    LET q == n \div d
        r == n - q * d
    IN  IF 2 * r < d THEN q
        ELSE IF 2 * r > d THEN q + 1
        ELSE IF q % 2 = 0 THEN q ELSE q + 1

\* s[start:stop] of a list, Python indices (0-based, negative from the end, clipped)
PyIndex(n, i) == IF i < 0 THEN Max(n + i, 0) ELSE Min(i, n)
PySlice(s, start, stop) ==
    LET lo == PyIndex(Len(s), start)
        hi == PyIndex(Len(s), stop)
    IN  IF lo >= hi THEN <<>> ELSE SubSeq(s, lo + 1, hi)

\* s[start:]
PySliceFrom(s, start) ==
    LET lo == PyIndex(Len(s), start)
    IN  IF lo >= Len(s) THEN <<>> ELSE SubSeq(s, lo + 1, Len(s))

RED == 0
GREEN == 1
BLUE == 2

-----------------------------------------------------------------------------
(* Configuration (Config, loaded by the constructor) and the fonts *)

\* glyph_w, glyph_h: the size of "A" in the body font; bold_w: the glyph width of the
\* bold body font; head_h: the height of "A" in the heading font.
BaseConfig ==
    [w |-> 30, h |-> 24, var_x |-> 12, out_y |-> 16, ovar_y |-> 8,
     sect_padding |-> 1, head_padding |-> 1, line_height |-> 1,
     watermark |-> TRUE, intro_text |-> FALSE, intro_time |-> 0, fps |-> 2,
     glyph_w |-> 2, glyph_h |-> 2, bold_w |-> 2, head_h |-> 3]

Configs ==
    { BaseConfig,                                                    \* 6 rows, 5 columns
      [BaseConfig EXCEPT !.h = 32, !.out_y = 24, !.watermark = FALSE,
                         !.intro_text = TRUE, !.intro_time = 2],     \* 10 rows, intro
      [BaseConfig EXCEPT !.out_y = 9, !.intro_text = TRUE,
                         !.intro_time = 1],                          \* 2.5 rows, empty intro
      [BaseConfig EXCEPT !.var_x = 2, !.out_y = 3, !.h = 6],         \* no columns, no rows
      [BaseConfig EXCEPT !.out_y = 0, !.h = 1, !.watermark = FALSE]  \* negative rows
    }

\* draw.textsize(text, font)[0] for a text of n characters
TextWidth(n, glyph) == n * glyph

-----------------------------------------------------------------------------
(* calc_sizes *)

NoSizes ==
    [line_height |-> None, body_cols |-> None, body_rows |-> None,
     out_x |-> None, out_y |-> None, out_cols |-> None, out_rows |-> None,
     vars_x |-> None, vars_y |-> None, vars_cols |-> None, vars_rows |-> None,
     ovars_x |-> None, ovars_y |-> None, ovars_cols |-> None, ovars_rows |-> None]

CalcSizes(c) ==
    LET gw == c.glyph_w
        gh == c.glyph_h
        hh == c.head_h
        line_height == gh * c.line_height
        body_cols == FloorDiv(c.var_x - c.sect_padding * 2, gw)
        \* (out_y - 2 * sect_padding) / line_height - 1, as a fraction
        body_rows == [num |-> c.out_y - c.sect_padding * 2 - line_height, den |-> line_height]
        out_y == c.out_y + c.head_padding * 2 + hh - line_height
        vars_x == c.var_x + c.sect_padding
        vars_y == c.head_padding * 2 + hh
        vars_cols == FloorDiv(c.w - c.var_x - c.sect_padding * 2, gw)
        ovars_h == c.h - c.ovar_y
    IN  [line_height |-> Some(line_height),
         body_cols |-> Some(body_cols),
         body_rows |-> Some(body_rows),
         out_x |-> Some(c.sect_padding),
         out_y |-> Some(out_y),
         out_cols |-> Some(body_cols),
         out_rows |-> Some(TruncDiv(c.h - out_y, line_height)),
         vars_x |-> Some(vars_x),
         vars_y |-> Some(vars_y),
         vars_cols |-> Some(vars_cols),
         vars_rows |-> Some(TruncDiv(c.ovar_y - c.sect_padding * 2 - line_height, line_height)),
         ovars_x |-> Some(vars_x),
         ovars_y |-> Some(c.ovar_y + vars_y - line_height),
         ovars_cols |-> Some(vars_cols),
         ovars_rows |-> Some(TruncDiv(ovars_h - c.sect_padding * 2 - line_height, line_height))]

-----------------------------------------------------------------------------
(* textwrap.wrap(line, width) for width > 0, on the chunks of the line *)

Word(n) == [ws |-> FALSE, len |-> n]
Space(n) == [ws |-> TRUE, len |-> n]

RECURSIVE SumLen(_)
SumLen(line) == IF line = <<>> THEN 0 ELSE Head(line).len + SumLen(Tail(line))

\* chunk.strip() == ''
Blank(chunk) == chunk.ws \/ chunk.len = 0

\* the inner loop: move chunks to the current line while they fit
RECURSIVE FillLine(_, _, _)
FillLine(chunks, cur_line, width) ==
    IF chunks # <<>> /\ SumLen(cur_line) + Head(chunks).len <= width
    THEN FillLine(Tail(chunks), Append(cur_line, Head(chunks)), width)
    ELSE [cur_line |-> cur_line, chunks |-> chunks]

\* _handle_long_word with break_long_words: cut the chunk at the space left
HandleLongWord(st, width) ==
    IF st.chunks # <<>> /\ Head(st.chunks).len > width
    THEN LET space_left == width - SumLen(st.cur_line)
             chunk == Head(st.chunks)
         IN  [cur_line |-> Append(st.cur_line, [chunk EXCEPT !.len = space_left]),
              chunks |-> <<[chunk EXCEPT !.len = chunk.len - space_left]>> \o Tail(st.chunks)]
    ELSE st

\* drop_whitespace at the end of the line
DropTrailing(cur_line) ==
    IF cur_line # <<>> /\ Blank(cur_line[Len(cur_line)])
    THEN SubSeq(cur_line, 1, Len(cur_line) - 1)
    ELSE cur_line

RECURSIVE WrapChunks(_, _, _)
WrapChunks(chunks, lines, width) ==
    IF chunks = <<>> THEN lines
    ELSE LET rest == IF Blank(Head(chunks)) /\ lines # <<>> THEN Tail(chunks) ELSE chunks
             st == HandleLongWord(FillLine(rest, <<>>, width), width)
             cur_line == DropTrailing(st.cur_line)
         IN  WrapChunks(st.chunks,
                        IF cur_line # <<>> THEN Append(lines, cur_line) ELSE lines,
                        width)

TextwrapWrap(line, width) == WrapChunks(line, <<>>, width)

-----------------------------------------------------------------------------
(* The renderer object as a record, and the inputs of its operations *)

\* The object right after the field assignments of __init__, before write_intro.
NewRenderer(c) ==
    [cfg |-> c, sizes_populated |-> FALSE, sizes |-> NoSizes,
     last_var_x |-> None, last_var_y |-> None, ref_var_x |-> None, ref_var_y |-> None,
     anchor_tick |-> [last |-> 0, ref |-> 0],
     frame |-> None, canvases |-> <<>>, encoder |-> <<>>, err |-> "none",
     calc_calls |-> 0, finish_calls |-> 0]

Self ==
    [cfg |-> cfg, sizes_populated |-> sizes_populated, sizes |-> sizes,
     last_var_x |-> last_var_x, last_var_y |-> last_var_y,
     ref_var_x |-> ref_var_x, ref_var_y |-> ref_var_y, anchor_tick |-> anchor_tick,
     frame |-> frame, canvases |-> canvases, encoder |-> encoder, err |-> err,
     calc_calls |-> calc_calls, finish_calls |-> finish_calls]

\* Variable State: what the tracer hands to finish_frame / close.
VarStates ==
    { [name |-> "a", action |-> "set", color |-> GREEN, text_lines |-> <<"1">>,
       other_text_lines |-> <<"b:", "2">>, ref |-> None],
      [name |-> "a", action |-> "set", color |-> BLUE, text_lines |-> <<"b">>,
       other_text_lines |-> <<"b:", "2">>, ref |-> Some("b")],
      [name |-> "total", action |-> "append", color |-> RED, text_lines |-> <<"b">>,
       other_text_lines |-> <<"x:", "1", "b:", "2">>, ref |-> Some("b")],
      [name |-> "a", action |-> "set", color |-> BLUE, text_lines |-> <<"c">>,
       other_text_lines |-> <<"b:", "2", "c: 3">>, ref |-> Some("c")],
      [name |-> "a", action |-> "set", color |-> BLUE, text_lines |-> <<"c">>,
       other_text_lines |-> <<>>, ref |-> Some("c")] }

OptVarStates == {None} \cup {Some(v) : v \in VarStates}

\* Code Snapshots: plain ones of short one-word lines, and one whose lines wrap
\* ("aaaa bbbb cccc", "", "    abc", "abcdefg", "ab").
PlainLines(n) == [i \in 1..n |-> <<Word(3)>>]
PlainSizes == {3, 10, 20}
WrappingLines ==
    << <<Word(4), Space(1), Word(4), Space(1), Word(4)>>,
       <<>>,
       <<Space(4), Word(3)>>,
       <<Word(7)>>,
       <<Word(2)>> >>
CodeSnapshots == {PlainLines(n) : n \in PlainSizes} \cup {WrappingLines}

\* Output histories: the lines are numbered in the order they were printed.
OutputHistories == {[i \in 1..n |-> i] : n \in 0..MaxOutLines}

-----------------------------------------------------------------------------
(* Canvas and encoder *)

\* Image.new: a Canvas the encoder has not seen
NewCanvas == [writes |-> 0, drawn_after_write |-> FALSE]

\* n drawing primitives (text, line, rectangle) on the current Canvas
DrawOn(s, n) ==
    IF n = 0 \/ s.frame = None THEN s
    ELSE LET id == Val(s.frame)
         IN  [s EXCEPT !.canvases[id].drawn_after_write = @ \/ s.canvases[id].writes > 0]

\* self.encoder.write(self.frame)
EncoderWrite(s) ==
    LET t == [s EXCEPT !.encoder = Append(@, [ev |-> "write", canvas |-> s.frame])]
    IN  IF s.frame = None THEN t
        ELSE [t EXCEPT !.canvases[Val(s.frame)].writes = @ + 1]

\* self.encoder.stop()
EncoderStop(s) == [s EXCEPT !.encoder = Append(@, [ev |-> "stop", canvas |-> None])]

Writes(enc) == Cardinality({i \in 1..Len(enc) : enc[i].ev = "write"})

Raise(s, e) == [s EXCEPT !.err = e]

\* new_frame
NewFrame(s) ==
    [s EXCEPT !.canvases = Append(@, NewCanvas), !.frame = Some(Len(s.canvases) + 1)]

-----------------------------------------------------------------------------
(* draw_other_vars, draw_last_var, draw_var_ref, draw_variables *)

\* The index (0-based) of the first line equal to ref + ":", or None.
RefIdx(state) ==
    LET hits == {i \in 1..Len(state.other_text_lines) :
                    state.other_text_lines[i] = Val(state.ref) \o ":"}
    IN  IF hits = {} THEN None
        ELSE Some((CHOOSE i \in hits : \A j \in hits : i <= j) - 1)

\* draw_other_vars, sizes populated
DrawOtherVars(s, state) ==
    LET drawn == DrawOn(s, Len(state.other_text_lines))
        ref_idx == RefIdx(state)
        line == state.other_text_lines[Val(ref_idx) + 1]
        rw == TextWidth(Len(line) + 1, s.cfg.glyph_w)
        lh == Val(s.sizes.line_height)
    IN  IF state.ref = None THEN drawn
        ELSE IF ref_idx = None THEN drawn
        ELSE [drawn EXCEPT
                !.ref_var_x = Some(Val(s.sizes.ovars_x) + rw),
                !.ref_var_y = Some(2 * Val(s.sizes.ovars_y) + 2 * lh * (Val(ref_idx) + 1) - lh),
                !.anchor_tick.ref = s.finish_calls]

\* draw_last_var, sizes populated
DrawLastVar(s, state) ==
    LET nw == TextWidth(Len(state.name) + 1, s.cfg.glyph_w)
        nh == s.cfg.glyph_h
        aw == TextWidth(Len(state.action) + 1, s.cfg.bold_w)
        drawn == DrawOn(s, 2 + Len(state.text_lines))
    IN  IF state.ref = None THEN drawn
        ELSE [drawn EXCEPT
                !.last_var_x = Some(Val(s.sizes.vars_x) + nw + aw),
                !.last_var_y = Some(2 * Val(s.sizes.vars_y) - nh),
                !.anchor_tick.last = s.finish_calls]

\* right_line_x without the bound of the scene width
RightLineXUnbounded(last_x, ref_x, c) ==
    2 * (Max(last_x, ref_x) + c.sect_padding)

\* right_line_x, in half pixels
RightLineX(last_x, ref_x, c) ==
    Min(2 * (Max(last_x, ref_x) + c.sect_padding), 2 * c.w - c.sect_padding)

\* The polyline draw_var_ref draws (x in pixels, y and trunk in half pixels), with the
\* finish_frame call each anchor comes from.
Connector(s, state) ==
    [source |-> <<Val(s.last_var_x), Val(s.last_var_y)>>,
     trunk |-> RightLineX(Val(s.last_var_x), Val(s.ref_var_x), s.cfg),
     target |-> <<Val(s.ref_var_x), Val(s.ref_var_y)>>,
     color |-> state.color,
     source_tick |-> s.anchor_tick.last,
     target_tick |-> s.anchor_tick.ref]

\* draw_var_ref: max(int, None) raises TypeError
DrawVarRef(s, state) ==
    IF s.last_var_x = None \/ s.ref_var_x = None THEN Raise(s, "TypeError")
    ELSE DrawOn(s, 1)

\* "if state.ref is not None: self.draw_var_ref(state)", on the object t after the
\* two panels were drawn; the second component is the connector drawn, if any
DrawRefIfAny(t, state) ==
    IF state.ref = None THEN <<t, None>>
    ELSE IF t.last_var_x = None \/ t.ref_var_x = None THEN <<DrawVarRef(t, state), None>>
    ELSE <<DrawVarRef(t, state), Some(Connector(t, state))>>

\* draw_variables
DrawVariables(s, state) ==
    IF ~s.sizes_populated
    THEN \* the origins are None: the first arithmetic on them raises, before any drawing
         IF state.other_text_lines = <<>> /\ s.frame = None
         THEN <<Raise(s, "AttributeError"), None>>
         ELSE <<Raise(s, "TypeError"), None>>
    ELSE IF s.frame = None THEN <<Raise(s, "AttributeError"), None>>
    ELSE DrawRefIfAny(DrawLastVar(DrawOtherVars(s, state), state), state)

-----------------------------------------------------------------------------
(* finish_frame, write_intro, start_frame, close *)

\* finish_frame without the bail-out
NoFrameNotChecked(s) == FALSE

\* "Bail out if there's no frame to finish"
NoFrame(s) == s.frame = None

\* draw_watermark
DrawWatermark(s) == IF s.frame = None THEN Raise(s, "AttributeError") ELSE DrawOn(s, 1)

\* "if var_state is not None: self.draw_variables(var_state)"
DrawVariablesIfAny(s, var_state) ==
    IF var_state = None THEN <<s, None>> ELSE DrawVariables(s, Val(var_state))

\* "if self.cfg.watermark: self.draw_watermark()", unless an exception is on its way
DrawWatermarkIfSet(s) ==
    IF s.err = "none" /\ s.cfg.watermark THEN DrawWatermark(s) ELSE s

\* "self.encoder.write(self.frame)", unless an exception is on its way
WriteFrame(s) == IF s.err = "none" THEN EncoderWrite(s) ELSE s

\* what a finish_frame did: s before, dv after draw_variables, t at the end
FinishReport(s, dv, t) ==
    [self |-> t, had_frame |-> s.frame # None, connector |-> dv[2],
     watermark |-> s.cfg.watermark /\ t.err = "none",
     events |-> SubSeq(t.encoder, Len(s.encoder) + 1, Len(t.encoder))]

FinishAllocated(s, dv) == FinishReport(s, dv, WriteFrame(DrawWatermarkIfSet(dv[1])))

\* finish_frame(var_state): the object afterwards and what the call did
FinishFrameOn(s, var_state) ==
    IF NoFrame(s)
    THEN [self |-> s, had_frame |-> FALSE, connector |-> None, watermark |-> FALSE,
          events |-> <<>>]
    ELSE FinishAllocated(s, DrawVariablesIfAny([s EXCEPT !.finish_calls = @ + 1], var_state))

\* round(intro_time / fps) frames, when intro_text and intro_time are set
IntroFrames(c) ==
    IF c.intro_text /\ c.intro_time # 0 THEN PyRound(c.intro_time, c.fps) ELSE 0

\* write_intro: each frame is a new Canvas with the centred text, finished without state
RECURSIVE WriteIntro(_, _)
WriteIntro(s, frames) ==
    IF frames <= 0 THEN s
    ELSE WriteIntro(FinishFrameOn(DrawOn(NewFrame(s), 1), None).self, frames - 1)

\* __init__
Construct(c) == WriteIntro(NewRenderer(c), IntroFrames(c))

\* start_frame computing the sizes for every frame
NeedsSizesEveryFrame(s) == TRUE

\* "if not self.sizes_populated"
NeedsSizes(s) == ~s.sizes_populated

\* start_frame: new Canvas, three dividers and three headings, sizes on first use
StartFrameOn(s) ==
    LET t == DrawOn(NewFrame(s), 6)
    IN  IF NeedsSizes(s)
        THEN [t EXCEPT !.sizes = CalcSizes(s.cfg), !.calc_calls = @ + 1,
                       !.sizes_populated = TRUE]
        ELSE t

\* "self.encoder.stop()", unless finish_frame raised
StopAfter(s, f, t) ==
    [f EXCEPT !.self = t,
              !.events = SubSeq(t.encoder, Len(s.encoder) + 1, Len(t.encoder))]

CloseAfter(s, f) ==
    StopAfter(s, f, IF f.self.err = "none" THEN EncoderStop(f.self) ELSE f.self)

\* close(var_state): finish_frame, then encoder.stop()
CloseOn(s, var_state) == CloseAfter(s, FinishFrameOn(s, var_state))

-----------------------------------------------------------------------------
(* draw_code *)

\* The wrapping loop of draw_code: the segments of every raw line, each with the index
\* of its raw line; a line that wraps to nothing still counts as one empty segment.
RECURSIVE Segments(_, _, _)
Segments(lines, i, width) ==
    IF i > Len(lines) THEN <<>>
    ELSE LET line_wrapped == TextwrapWrap(lines[i], width)
             segs == IF Len(line_wrapped) = 0
                     THEN << [text |-> <<>>, raw |-> i - 1] >>
                     ELSE [k \in 1..Len(line_wrapped) |->
                              [text |-> line_wrapped[k], raw |-> i - 1]]
         IN  segs \o Segments(lines, i + 1, width)

\* The wrapping depends on the lines and the width only: it is tabulated once, for the
\* snapshots and the positive widths of the configurations.
Widths == {width \in {Val(CalcSizes(c).body_cols) : c \in Configs} : width > 0}
SegmentTable ==
    [width \in Widths |-> [lines \in CodeSnapshots |-> Segments(lines, 1, width)]]

\* wrapped_lines: every segment carries the highlighted flag of its raw line
\* (highlighted = (i == cur_idx))
WrappedLines(lines, cur_idx, body_cols) ==
    LET segs == SegmentTable[body_cols][lines]
    IN  [k \in 1..Len(segs) |->
            [text |-> segs[k].text, highlighted |-> segs[k].raw = cur_idx]]

\* ctx_side_lines = body_rows / 2 - 1, as a fraction
CtxSideLines(body_rows) ==
    [num |-> body_rows.num - 2 * body_rows.den, den |-> 2 * body_rows.den]

\* round(cur_idx - ctx_side_lines) and round(cur_idx + ctx_side_lines)
RoundedStart(cur_idx, ctx) == PyRound(cur_idx * ctx.den - ctx.num, ctx.den)
RoundedEnd(cur_idx, ctx) == PyRound(cur_idx * ctx.den + ctx.num, ctx.den)

\* start_idx clamped to 0 without moving end_idx by the lines cut off
CodeWindowNotShifted(cur_idx, body_rows) ==
    LET ctx == CtxSideLines(body_rows)
        start_idx == RoundedStart(cur_idx, ctx)
        end_idx == RoundedEnd(cur_idx, ctx)
    IN  [start_idx |-> IF start_idx < 0 THEN 0 ELSE start_idx, end_idx |-> end_idx + 1]

\* start_idx and end_idx as they are when the slice is taken
CodeWindow(cur_idx, body_rows) ==
    LET ctx == CtxSideLines(body_rows)
        start_idx == RoundedStart(cur_idx, ctx)
        end_idx == RoundedEnd(cur_idx, ctx)
    IN  IF start_idx < 0
        THEN [start_idx |-> 0, end_idx |-> end_idx + (-start_idx) + 1]
        ELSE [start_idx |-> start_idx, end_idx |-> end_idx + 1]

Highlighted(display_lines) ==
    {i \in 1..Len(display_lines) : display_lines[i].highlighted}

\* draw_code(lines, cur_line), sizes populated: textwrap refuses a width <= 0
DrawCodeOn(s, lines, cur_line) ==
    LET cur_idx == cur_line - 1
        body_cols == Val(s.sizes.body_cols)
        wrapped_lines == WrappedLines(lines, cur_idx, body_cols)
        win == CodeWindow(cur_idx, Val(s.sizes.body_rows))
        display_lines == PySlice(wrapped_lines, win.start_idx, win.end_idx)
    IN  IF lines # <<>> /\ body_cols <= 0
        THEN [self |-> Raise(s, "ValueError"), start_idx |-> 0, end_idx |-> 0,
              wrapped |-> 0, display_lines |-> <<>>]
        ELSE [self |-> DrawOn(s, Len(display_lines) + Cardinality(Highlighted(display_lines))),
              start_idx |-> win.start_idx, end_idx |-> win.end_idx,
              wrapped |-> Len(wrapped_lines), display_lines |-> display_lines]

-----------------------------------------------------------------------------
(* draw_output, draw_exec *)

\* lines[-self.out_rows:]
OutputTail(lines, out_rows) == PySliceFrom(lines, -out_rows)

DrawOutputOn(s, lines) ==
    LET shown == OutputTail(lines, Val(s.sizes.out_rows))
    IN  [self |-> DrawOn(s, Len(shown)), display_lines |-> shown]

\* "time" or "times"
Plural(nr_times) == IF nr_times = 1 THEN "" ELSE "s"

\* draw_exec(nr_times, cur, avg, total): line_height * body_rows of None raises
DrawExecOn(s, nr_times) ==
    IF ~s.sizes_populated THEN [self |-> Raise(s, "TypeError"), text |-> None]
    ELSE [self |-> DrawOn(s, 1), text |-> Some(Plural(nr_times))]

-----------------------------------------------------------------------------
(* The state machine *)

Assign(s) ==
    /\ cfg' = s.cfg
    /\ sizes_populated' = s.sizes_populated
    /\ sizes' = s.sizes
    /\ last_var_x' = s.last_var_x
    /\ last_var_y' = s.last_var_y
    /\ ref_var_x' = s.ref_var_x
    /\ ref_var_y' = s.ref_var_y
    /\ anchor_tick' = s.anchor_tick
    /\ frame' = s.frame
    /\ canvases' = s.canvases
    /\ encoder' = s.encoder
    /\ err' = s.err
    /\ calc_calls' = s.calc_calls
    /\ finish_calls' = s.finish_calls

Init ==
    \E c \in Configs :
        \E s \in {Construct(c)} :
            /\ cfg = s.cfg
            /\ sizes_populated = s.sizes_populated
            /\ sizes = s.sizes
            /\ last_var_x = s.last_var_x
            /\ last_var_y = s.last_var_y
            /\ ref_var_x = s.ref_var_x
            /\ ref_var_y = s.ref_var_y
            /\ anchor_tick = s.anchor_tick
            /\ frame = s.frame
            /\ canvases = s.canvases
            /\ encoder = s.encoder
            /\ err = s.err
            /\ calc_calls = s.calc_calls
            /\ finish_calls = s.finish_calls
            /\ closed = FALSE
            /\ start_calls = 0
            /\ last = [op |-> "init"]

\* The run goes on: no exception has escaped and close has not been called.
Running == err = "none" /\ ~closed

StartFrame ==
    /\ Running
    /\ start_calls < MaxFrames
    /\ \E s \in { StartFrameOn(Self) } : Assign(s)
    /\ start_calls' = start_calls + 1
    /\ last' = [op |-> "start_frame"]
    /\ UNCHANGED closed

DrawCode ==
    /\ Running
    /\ \E lines \in CodeSnapshots : \E cur_line \in 1..Len(lines) :
          \E r \in { IF ~sizes_populated
                     THEN \* body_cols and body_rows are None
                          [self |-> Raise(Self, "TypeError"), start_idx |-> 0,
                           end_idx |-> 0, wrapped |-> 0, display_lines |-> <<>>]
                     ELSE DrawCodeOn(Self, lines, cur_line) } :
              /\ Assign(r.self)
              /\ last' = [op |-> "draw_code", lines |-> lines, cur_line |-> cur_line,
                          start_idx |-> r.start_idx, end_idx |-> r.end_idx,
                          wrapped |-> r.wrapped, display_lines |-> r.display_lines]
    /\ UNCHANGED <<closed, start_calls>>

DrawOutput ==
    /\ Running
    /\ \E lines \in OutputHistories :
          \E r \in { IF ~sizes_populated
                     THEN \* -None
                          [self |-> Raise(Self, "TypeError"), display_lines |-> <<>>]
                     ELSE DrawOutputOn(Self, lines) } :
              /\ Assign(r.self)
              /\ last' = [op |-> "draw_output", lines |-> lines,
                          display_lines |-> r.display_lines]
    /\ UNCHANGED <<closed, start_calls>>

DrawExec ==
    /\ Running
    /\ \E nr_times \in 1..2 :
          \E r \in { DrawExecOn(Self, nr_times) } :
              /\ Assign(r.self)
              /\ last' = [op |-> "draw_exec", nr_times |-> nr_times, text |-> r.text]
    /\ UNCHANGED <<closed, start_calls>>

FinishFrame ==
    /\ Running
    /\ frame = None \/ Writes(encoder) < MaxWrites
    /\ \E var_state \in OptVarStates :
          \E f \in { FinishFrameOn(Self, var_state) } :
              /\ Assign(f.self)
              /\ last' = [op |-> "finish_frame", var_state |-> var_state,
                          had_frame |-> f.had_frame, connector |-> f.connector,
                          watermark |-> f.watermark, events |-> f.events]
    /\ UNCHANGED <<closed, start_calls>>

Close ==
    /\ Running
    /\ \E var_state \in OptVarStates :
          \E f \in { CloseOn(Self, var_state) } :
              /\ Assign(f.self)
              /\ last' = [op |-> "close", var_state |-> var_state,
                          had_frame |-> f.had_frame, connector |-> f.connector,
                          watermark |-> f.watermark, events |-> f.events]
    /\ closed' = TRUE
    /\ UNCHANGED start_calls

Next ==
    \/ StartFrame
    \/ DrawCode
    \/ DrawOutput
    \/ DrawExec
    \/ FinishFrame
    \/ Close

Spec == Init /\ [][Next]_vars

-----------------------------------------------------------------------------
(* What the last operation was *)

Finished == last.op \in {"finish_frame", "close"}
Finishing == Finished /\ last.had_frame
DrewCode == last.op = "draw_code" /\ sizes_populated
DrewOutput == last.op = "draw_output" /\ sizes_populated

\* the reference of the Variable State the last finish_frame was given has no line;
\* the frame is one of start_frame (the layout is there)
MissedRef ==
    /\ Finishing
    /\ sizes_populated
    /\ last.var_state # None
    /\ Val(last.var_state).ref # None
    /\ RefIdx(Val(last.var_state)) = None

\* body_rows when it is a whole number
WholeRows == Val(sizes.body_rows).num % Val(sizes.body_rows).den = 0
Rows == Val(sizes.body_rows).num \div Val(sizes.body_rows).den

\* the Display Lines shown are those of indices first..last of the wrapped lines
Shows(first, upto) ==
    /\ last.start_idx = first
    /\ Len(last.display_lines) = upto - first + 1

ShowsIndex(i) ==
    last.start_idx <= i /\ i < last.start_idx + Len(last.display_lines)

-----------------------------------------------------------------------------
(* C1: a finish_frame on an allocated frame whose Variable State names a     *)
(* reference that no line of the other-variables text equals draws no        *)
(* connector and raises no error, in the first frame and in any later one.   *)
C1_MissingRefIsSilent ==
    MissedRef => (last.connector = None /\ err = "none")

(* C2: with at least R Display Lines available, the window of draw_code has  *)
(* exactly R lines and contains index i; 10 lines, index 1, R = 6 shows      *)
(* [0,5]; 20 lines, current line 15, R = 10 shows 10 lines, [10,19].         *)
C2_FullWindow ==
    (DrewCode /\ err = "none" /\ WholeRows /\ Rows >= 1 /\ last.wrapped >= Rows)
        => /\ Len(last.display_lines) = Rows
           /\ ShowsIndex(last.cur_line - 1)
           /\ (Rows = 6 /\ last.wrapped = 10 /\ last.cur_line = 2) => Shows(0, 5)
           /\ (Rows = 10 /\ last.wrapped = 20 /\ last.cur_line = 15) => Shows(10, 19)

(* C2, amended: for an even row capacity R >= 2 and at least                 *)
(* max(R - 1, i + R/2) Display Lines, the window has exactly R - 1 lines and *)
(* contains index i; 10 lines, index 1, R = 6 shows [0,4]; 20 lines, current *)
(* line 15, R = 10 shows 9 lines, [10,18].                                   *)
C2_WindowOfRowsMinusOne ==
    (/\ DrewCode /\ err = "none" /\ WholeRows /\ Rows >= 2 /\ Rows % 2 = 0
     /\ last.wrapped >= Max(Rows - 1, (last.cur_line - 1) + (Rows \div 2)))
        => /\ Len(last.display_lines) = Rows - 1
           /\ ShowsIndex(last.cur_line - 1)
           /\ (Rows = 6 /\ last.wrapped = 10 /\ last.cur_line = 2) => Shows(0, 4)
           /\ (Rows = 10 /\ last.wrapped = 20 /\ last.cur_line = 15) => Shows(10, 18)

C2_Witness ==
    /\ DrewCode /\ err = "none" /\ WholeRows /\ Rows = 10
    /\ last.wrapped = 20 /\ last.cur_line = 15
    /\ Shows(10, 18)

(* C3: for a current line within 1..len(lines) and a non-empty window, the   *)
(* window of draw_code holds a highlighted Display Line, also when lines     *)
(* before the current one wrap.  (Stated for a positive row capacity.)      *)
C3_HighlightShown ==
    (/\ DrewCode /\ err = "none"
     /\ Val(sizes.body_rows).num > 0
     /\ last.cur_line \in 1..Len(last.lines)
     /\ last.display_lines # <<>>)
        => Highlighted(last.display_lines) # {}

(* C4: a Canvas handed to the encoder is never drawn on again and never      *)
(* handed over a second time.                                                *)
C4_CanvasWrittenOnce ==
    \A id \in 1..Len(canvases) :
        canvases[id].writes <= 1 /\ ~canvases[id].drawn_after_write

(* C5: finish_frame without an allocated frame draws nothing, writes nothing *)
(* and leaves the renderer as it was, whatever the Variable State and the    *)
(* watermark setting.                                                        *)
C5_NoFrameNoOp ==
    [][(frame = None /\ last'.op = "finish_frame")
          => /\ UNCHANGED renderer
             /\ last'.events = <<>>
             /\ last'.connector = None
             /\ ~last'.watermark]_vars

C5_Witness ==
    /\ last.op = "finish_frame"
    /\ ~last.had_frame
    /\ last.var_state # None
    /\ cfg.watermark
    /\ frame = None /\ encoder = <<>> /\ canvases = <<>>

(* C6: calc_sizes runs at most once, on the first start_frame, and no later  *)
(* operation changes a layout metric.                                        *)
C6_LayoutOnce ==
    [][/\ calc_calls <= 1 /\ calc_calls' <= 1
       /\ (calc_calls' # calc_calls \/ sizes' # sizes)
             => /\ last'.op = "start_frame"
                /\ start_calls = 0
                /\ calc_calls' = calc_calls + 1
       /\ sizes_populated => (sizes_populated' /\ sizes' = sizes)
       /\ (start_calls' > 0) => (sizes_populated' /\ calc_calls' = 1)]_vars

C6_Witness ==
    /\ calc_calls = 1
    /\ start_calls = 2
    /\ Finishing
    /\ sizes = CalcSizes(cfg)

(* C7: the trunk X of a connector never exceeds w - sect_padding / 2, and is *)
(* max(source.x, target.x) + sect_padding whenever that is below the bound.  *)
C7_RouterBound ==
    (Finished /\ last.connector # None)
        => LET k == Val(last.connector)
               want == Max(k.source[1], k.target[1]) + cfg.sect_padding
               bound2 == 2 * cfg.w - cfg.sect_padding
           IN  /\ k.trunk <= bound2
               /\ (2 * want < bound2) => (k.trunk = 2 * want)

C7_Witness ==
    /\ Finished /\ last.connector # None
    /\ Max(Val(last.connector).source[1], Val(last.connector).target[1])
          + cfg.sect_padding > cfg.w
    /\ Val(last.connector).trunk = 2 * cfg.w - cfg.sect_padding

(* C8: close performs one finish_frame and then one encoder stop: the        *)
(* encoder receives the final frame, if one is allocated, and then stop.     *)
C8_CloseWritesThenStops ==
    (last.op = "close")
        => last.events =
              (IF last.had_frame THEN <<[ev |-> "write", canvas |-> frame]>> ELSE <<>>)
                  \o <<[ev |-> "stop", canvas |-> None]>>

(* C9: both anchors of a connector drawn by a finish_frame were computed     *)
(* from the Variable State of that same finish_frame.  (Stated for the      *)
(* first finish_frame of a frame.)                                           *)
C9_AnchorsOfThisFrame ==
    (Finished /\ last.connector # None /\ canvases[Val(frame)].writes = 1)
        => /\ Val(last.connector).source_tick = finish_calls
           /\ Val(last.connector).target_tick = finish_calls

(* C10: with a row or column capacity of zero or less the section shows no   *)
(* lines and nothing is raised: draw_output with out_rows <= 0, draw_code    *)
(* with body_cols <= 0 or body_rows <= 0.                                    *)
C10_EmptySection ==
    /\ (DrewOutput /\ Val(sizes.out_rows) <= 0)
          => (last.display_lines = <<>> /\ err = "none")
    /\ (DrewCode /\ (Val(sizes.body_cols) <= 0 \/ Val(sizes.body_rows).num <= 0))
          => (last.display_lines = <<>> /\ err = "none")

====
